---------------------------- MODULE Spec2Model ----------------------------
(* Model of meshmembers' local-observer fan-out: the accept loop and       *)
(* handleClient (client.go), the per-client waitForDisconnect watcher,     *)
(* Broadcast/Broadcastf, and the event dispatcher of event.go.             *)
(* Goroutines are processes; a step is the code between two points where   *)
(* another goroutine can observe or change shared state (the clients       *)
(* table, the connections, the log, the event channel).                    *)
EXTENDS Integers, Sequences, FiniteSets, TLC

(***************************************************************************)
(* Bounds of the model.                                                    *)
(***************************************************************************)
\* client.go:36 sets maxClients to 1024; the table is scaled down here.
maxClients == 2
\* handleClient goroutines the listener starts in one run.
MaxConns == 4
\* Connections accepted in the runs where observers come and go.
TripleConns == 3
\* AcceptUnix calls that fail with a temporary error in one run.
MaxAcceptErrors == 1
\* Connections accepted in the runs that also dispatch events.
FewConns == 1
\* Connections accepted in the runs that check progress.
PairConns == 2
\* Events the membership service sends on nech in one run.
MaxEvents == 3
\* NotifyConflict callbacks the membership service makes in one run.
MaxConflicts == 1
\* Bytes an observer can have in flight towards the service.
MaxInbuf == 1

Slots == 1..maxClients
Conns == 1..MaxConns
NoConn == 0

(***************************************************************************)
(* memberlist.Node values and event kinds (external library types).        *)
(***************************************************************************)
NodeJoin == 0
NodeLeave == 1
NodeUpdate == 2
NodeOther == 3

ourName == "n0"
Node0 == [Name |-> "n0", Addr |-> [v6 |-> FALSE, s |-> "10.0.0.9"], Port |-> 7887]
Node1 == [Name |-> "n1", Addr |-> [v6 |-> FALSE, s |-> "10.0.0.1"], Port |-> 7887]
Node2 == [Name |-> "n2", Addr |-> [v6 |-> TRUE, s |-> "2001:db8::2"], Port |-> 7888]
Nodes == {Node0, Node1, Node2}
EventKinds == {NodeJoin, NodeLeave, NodeUpdate, NodeOther}

(***************************************************************************)
(* Text.  A formatted string is built as a sequence of pieces (the result  *)
(* of fmt.Sprintf before it is turned into bytes); Flatten gives the bytes.*)
(***************************************************************************)
RECURSIVE Flatten(_)
Flatten(m) == IF m = <<>> THEN "" ELSE Head(m) \o Flatten(Tail(m))

HasSuffixNL(m) == m # <<>> /\ m[Len(m)] = "\n"

\* net.JoinHostPort: a host holding a colon is bracketed.
JoinHostPort(addr, port) ==
    IF addr.v6 THEN <<"[", addr.s, "]", ":", port>> ELSE <<addr.s, ":", port>>

\* event.go FormatNode: "%s (%s)" of the name and JoinHostPort(addr, port).
FormatNode(n) ==
    <<n.Name, " (">> \o JoinHostPort(n.Addr, ToString(n.Port)) \o <<")">>

\* Variant: our own join is announced like any other.
EventLineOwnJoin(ne) ==
    IF ne.Event = NodeJoin THEN <<"[Join] ">> \o FormatNode(ne.Node)
    ELSE IF ne.Event = NodeUpdate THEN <<"[News] ">> \o FormatNode(ne.Node)
    ELSE IF ne.Event = NodeLeave THEN <<"[Part] ">> \o FormatNode(ne.Node)
    ELSE <<"[Unknown event ", ToString(ne.Event), "] ">>
             \o FormatNode(ne.Node) \o <<"s">>

\* Variant: the switch has no case for updates and drops them.
EventLineNoUpdate(ne) ==
    IF ne.Event = NodeJoin
    THEN IF ourName = ne.Node.Name THEN <<>>
         ELSE <<"[Join] ">> \o FormatNode(ne.Node)
    ELSE IF ne.Event = NodeUpdate THEN <<>>
    ELSE IF ne.Event = NodeLeave THEN <<"[Part] ">> \o FormatNode(ne.Node)
    ELSE <<"[Unknown event ", ToString(ne.Event), "] ">>
             \o FormatNode(ne.Node) \o <<"s">>

\* The message handleEvent passes to broadcastAndLogf, or <<>> when the
\* event is dropped (our own join).
EventLine(ne) ==
    IF ne.Event = NodeJoin
    THEN IF ourName = ne.Node.Name THEN <<>>
         ELSE <<"[Join] ">> \o FormatNode(ne.Node)
    ELSE IF ne.Event = NodeUpdate THEN <<"[News] ">> \o FormatNode(ne.Node)
    ELSE IF ne.Event = NodeLeave THEN <<"[Part] ">> \o FormatNode(ne.Node)
    ELSE <<"[Unknown event ", ToString(ne.Event), "] ">>
             \o FormatNode(ne.Node) \o <<"s">>

\* NotifyConflict's message: %s of a *memberlist.Node is its String(), the name.
ConflictLine(existing, other) ==
    <<"[Name Conflict] Existing: ", existing.Name, " New: ", other.Name>>

\* Broadcastf: the message, with a newline added unless it ends in one.
BroadcastfBytes(m) == Flatten(IF HasSuffixNL(m) THEN m ELSE m \o <<"\n">>)

\* Variant: the members are written last to first.
RECURSIVE NodeLinesReversed(_)
NodeLinesReversed(ns) ==
    IF ns = <<>> THEN <<>>
    ELSE NodeLinesReversed(Tail(ns)) \o FormatNode(Head(ns)) \o <<"\n">>

\* handleClient's state message for the roster ns.
RECURSIVE NodeLines(_)
NodeLines(ns) ==
    IF ns = <<>> THEN <<>>
    ELSE FormatNode(Head(ns)) \o <<"\n">> \o NodeLines(Tail(ns))

SnapshotBytes(ns) ==
    Flatten(<<"Current nodes in mesh: ", ToString(Len(ns)), "\n">> \o NodeLines(ns))

\* Variant: the message without its newline.
TooManyNoNewline == "Too many connected clients, sorry"

TooManyBytes == "Too many connected clients, sorry\n"


(***************************************************************************)
(* State.                                                                  *)
(***************************************************************************)
VARIABLES
    members,      \* the membership service's roster, what m.Members() returns
    nech,         \* the unbuffered event channel: <<>> or one pending send
    events,       \* the events HandleEvents has received, in order
    epc,          \* per received event: where its handleEvent goroutine is
    bpc,          \* per received event: where its Broadcastf goroutine is
    conflicts,    \* how many NotifyConflict callbacks have been made
    logged,       \* the event lines written by log.Printf, in order
    bcasts,       \* the Broadcast calls, in the order they took clientsL:
                  \* the event behind each (0 for a name conflict), the copy
                  \* wb, and the sessions its loop found in the table
    clientLog,    \* the per-client lines written by log.Printf
    accepted,     \* how many handleClient goroutines handleClients started
    clientCount,  \* client.go clientCount
    clients,      \* client.go clients: slot -> session (its connection) or nil
    clientsL,     \* client.go clientsL: NoConn when free, else the holder
    hpc,          \* per connection: where its handleClient goroutine is, and
                  \* once it has returned, by which return: "failed" (line
                  \* 129), "registered" (line 144) or "rejected" (line 151)
    tag,          \* per connection: the number in its "client-%d" tag
    ns,           \* per connection: the roster handleClient queried
    wpc,          \* per connection: where its waitForDisconnect goroutine is
    ci,           \* per connection: the slot index its watcher was given
    conn,         \* per connection: the socket: closed by the service or not,
                  \* the observer's end ("open", "stalled" once it has stopped
                  \* reading and the socket buffer is full, "deaf" once it
                  \* has shut down its reading side, "gone" once it has
                  \* closed), and the bytes the observer sent that were not
                  \* read yet
    recv,         \* per connection: what the service wrote to it, in order
    writes,       \* the goroutines Broadcast started that have yet to write
    panicked      \* the process has ended (a nil dereference, or log.Fatalf);
                  \* every goroutine has stopped

evars == <<members, nech, events, epc, bpc, conflicts, logged>>
cvars == <<accepted, clientCount, clients, clientsL, hpc, tag, ns, wpc, ci,
           conn, recv, clientLog, panicked>>
vars == <<members, nech, events, epc, bpc, conflicts, logged, bcasts,
          clientLog, accepted, clientCount, clients, clientsL, hpc, tag, ns,
          wpc, ci, conn, recv, writes, panicked>>

NewConn == [closed |-> FALSE, peer |-> "open", inbuf |-> 0]

\* The nil *net.UnixConn that AcceptUnix returns beside an error.
NilConn == [closed |-> FALSE, peer |-> "nil", inbuf |-> 0]

Init ==
    /\ members = <<>>
    /\ nech = <<>>
    /\ events = <<>>
    /\ epc = <<>>
    /\ bpc = <<>>
    /\ conflicts = 0
    /\ logged = <<>>
    /\ bcasts = <<>>
    /\ clientLog = {}
    /\ accepted = 0
    /\ clientCount = 0
    /\ clients = [i \in Slots |-> NoConn]
    /\ clientsL = NoConn
    /\ hpc = [c \in Conns |-> "none"]
    /\ tag = [c \in Conns |-> -1]
    /\ ns = [c \in Conns |-> <<>>]
    /\ wpc = [c \in Conns |-> "none"]
    /\ ci = [c \in Conns |-> 0]
    /\ conn = [c \in Conns |-> NewConn]
    /\ recv = [c \in Conns |-> <<>>]
    /\ writes = {}
    /\ panicked = FALSE

(***************************************************************************)
(* The membership service (hashicorp/memberlist), as meshmembers.go wires  *)
(* it: events go to nech through a ChannelEventDelegate, conflicts to      *)
(* ConflictHandler.NotifyConflict, and Members() reads the roster.         *)
(***************************************************************************)
Range(f) == {f[i] : i \in DOMAIN f}

RECURSIVE Without(_, _)
Without(s, n) ==
    IF s = <<>> THEN <<>>
    ELSE IF Head(s) = n THEN Without(Tail(s), n)
    ELSE <<Head(s)>> \o Without(Tail(s), n)

\* memberlist.Create (meshmembers.go:154) starts the local node: it is the
\* first member and its join is the first event sent on nech.
MeshCreate ==
    /\ ~panicked
    /\ members = <<>>
    /\ nech = <<>>
    /\ events = <<>>
    /\ members' = <<Node0>>
    /\ nech' = <<[Event |-> NodeJoin, Node |-> Node0]>>
    /\ UNCHANGED <<events, epc, bpc, conflicts, logged, bcasts, writes>>
    /\ UNCHANGED cvars

\* Afterwards other nodes join, change and leave; the service blocks on the
\* send until HandleEvents has taken the previous event.
MeshEvent ==
    /\ ~panicked
    /\ members # <<>>
    /\ nech = <<>>
    /\ Len(events) < MaxEvents
    /\ \E n \in Nodes \ {Node0}, k \in EventKinds :
          /\ IF k = NodeJoin THEN n \notin Range(members) ELSE n \in Range(members)
          /\ members' = IF k = NodeJoin THEN Append(members, n)
                        ELSE IF k = NodeLeave THEN Without(members, n)
                        ELSE members
          /\ nech' = <<[Event |-> k, Node |-> n]>>
    /\ UNCHANGED <<events, epc, bpc, conflicts, logged, bcasts, writes>>
    /\ UNCHANGED cvars

\* memberlist.Create has returned once the local node's join was received.
Created == events # <<>>

(***************************************************************************)
(* event.go                                                                *)
(***************************************************************************)
\* Variant: the loop takes the next event only once the writes of the
\* broadcasts made so far have returned.
HandleEventsAfterWrites ==
    /\ ~panicked
    /\ nech # <<>>
    /\ writes = {}
    /\ events' = Append(events, nech[1])
    /\ epc' = Append(epc, "handle")
    /\ bpc' = Append(bpc, "none")
    /\ nech' = <<>>
    /\ UNCHANGED <<members, conflicts, logged, bcasts, writes>>
    /\ UNCHANGED cvars

\* HandleEvents: receive the next event and start handleEvent for it.
HandleEvents ==
    /\ ~panicked
    /\ nech # <<>>
    /\ events' = Append(events, nech[1])
    /\ epc' = Append(epc, "handle")
    /\ bpc' = Append(bpc, "none")
    /\ nech' = <<>>
    /\ UNCHANGED <<members, conflicts, logged, bcasts, writes>>
    /\ UNCHANGED cvars

\* handleEvent up to and including broadcastAndLogf's go statement.
handleEvent(e) ==
    /\ ~panicked
    /\ epc[e] = "handle"
    /\ IF EventLine(events[e]) = <<>>
       THEN /\ epc' = [epc EXCEPT ![e] = "done"]
            /\ bpc' = bpc
       ELSE /\ epc' = [epc EXCEPT ![e] = "log"]
            /\ bpc' = [bpc EXCEPT ![e] = "ready"]
    /\ UNCHANGED <<members, nech, events, conflicts, logged, bcasts, writes>>
    /\ UNCHANGED cvars

\* broadcastAndLogf's log.Printf.
broadcastAndLogf(e) ==
    /\ ~panicked
    /\ epc[e] = "log"
    /\ logged' = Append(logged, [ev |-> e, line |-> Flatten(EventLine(events[e]))])
    /\ epc' = [epc EXCEPT ![e] = "done"]
    /\ UNCHANGED <<members, nech, events, bpc, conflicts, bcasts, writes>>
    /\ UNCHANGED cvars

(***************************************************************************)
(* client.go: Broadcast                                                    *)
(***************************************************************************)
\* The sessions Broadcast's loop finds in the table.
Registered == {clients[i] : i \in Slots} \ {NoConn}

\* Variant: the loop starts at the second entry of the table.
BroadcastTargetsSkipFirst(k) ==
    {[l |-> clients[i], b |-> k] : i \in {j \in Slots : j > 1 /\ clients[j] # NoConn}}

\* Variant: the loop goes over every session there has been, its slot
\* cleared or not.
BroadcastTargetsStale(k) == {[l |-> c, b |-> k] : c \in {d \in Conns : ci[d] # 0}}

\* Broadcast's critical section for the call numbered k: one goroutine per
\* non-nil entry of clients, each holding that entry and the copy wb.
BroadcastTargets(k) == {[l |-> c, b |-> k] : c \in Registered}

\* Broadcastf running in the goroutine broadcastAndLogf started.
Broadcastf(e) ==
    /\ ~panicked
    /\ bpc[e] = "ready"
    /\ clientsL = NoConn
    /\ bcasts' = Append(bcasts, [ev |-> e, to |-> Registered,
                                   wb |-> BroadcastfBytes(EventLine(events[e]))])
    /\ writes' = writes \cup BroadcastTargets(Len(bcasts) + 1)
    /\ bpc' = [bpc EXCEPT ![e] = "done"]
    /\ UNCHANGED <<members, nech, events, epc, conflicts, logged>>
    /\ UNCHANGED cvars

\* A node at another address that claims the name of a member.
Impostor(n) == [Name |-> n.Name, Addr |-> [v6 |-> FALSE, s |-> "10.0.0.66"], Port |-> 7887]

\* ConflictHandler.NotifyConflict, called by the membership service.
NotifyConflict ==
    /\ ~panicked
    /\ Created
    /\ conflicts < MaxConflicts
    /\ clientsL = NoConn
    /\ \E existing \in Range(members) :
          bcasts' = Append(bcasts, [ev |-> 0, to |-> Registered,
                       wb |-> BroadcastfBytes(ConflictLine(existing, Impostor(existing)))])
    /\ writes' = writes \cup BroadcastTargets(Len(bcasts) + 1)
    /\ conflicts' = conflicts + 1
    /\ UNCHANGED <<members, nech, events, epc, bpc, logged>>
    /\ UNCHANGED cvars

\* A Write on connection c fails once either end has closed it.
Writable(c) == ~conn[c].closed /\ conn[c].peer = "open"

\* A Write on connection c does not return: the observer takes no data and
\* the socket buffer is full.  Closing the connection ends the call.
Blocked(c) == ~conn[c].closed /\ conn[c].peer = "stalled"

\* Variant: a failed write is logged and the connection left open.
BroadcastWriteNoClose(t) ==
    /\ ~panicked
    /\ t \in writes
    /\ ~Blocked(t.l)
    /\ writes' = writes \ {t}
    /\ IF Writable(t.l)
       THEN /\ recv' = [recv EXCEPT ![t.l] = Append(@, bcasts[t.b].wb)]
            /\ UNCHANGED clientLog
       ELSE /\ clientLog' = clientLog \cup {<<tag[t.l], "Write error">>}
            /\ UNCHANGED recv
    /\ UNCHANGED evars
    /\ UNCHANGED <<bcasts, accepted, clientCount, clients, clientsL, hpc, tag,
                   ns, wpc, ci, conn, panicked>>

\* Variant: a failed write also stops the writes of the same call that have
\* not happened yet, as a loop that returned on the first error would.
BroadcastWriteAbort(t) ==
    /\ ~panicked
    /\ t \in writes
    /\ ~Blocked(t.l)
    /\ IF Writable(t.l)
       THEN /\ writes' = writes \ {t}
            /\ recv' = [recv EXCEPT ![t.l] = Append(@, bcasts[t.b].wb)]
            /\ UNCHANGED <<conn, clientLog>>
       ELSE /\ writes' = {u \in writes : u.b # t.b}
            /\ clientLog' = clientLog \cup {<<tag[t.l], "Write error">>}
            /\ conn' = [conn EXCEPT ![t.l].closed = TRUE]
            /\ UNCHANGED recv
    /\ UNCHANGED evars
    /\ UNCHANGED <<bcasts, accepted, clientCount, clients, clientsL, hpc, tag,
                   ns, wpc, ci, panicked>>

\* Variant: after a failed write the goroutine also takes clientsL and
\* clears the session's slot.
BroadcastWriteEvict(t) ==
    /\ ~panicked
    /\ t \in writes
    /\ ~Blocked(t.l)
    /\ writes' = writes \ {t}
    /\ IF Writable(t.l)
       THEN /\ recv' = [recv EXCEPT ![t.l] = Append(@, bcasts[t.b].wb)]
            /\ UNCHANGED <<conn, clientLog, clients>>
       ELSE /\ clientsL = NoConn
            /\ clientLog' = clientLog \cup {<<tag[t.l], "Write error">>}
            /\ conn' = [conn EXCEPT ![t.l].closed = TRUE]
            /\ clients' = [i \in Slots |-> IF clients[i] = t.l THEN NoConn ELSE clients[i]]
            /\ UNCHANGED recv
    /\ UNCHANGED evars
    /\ UNCHANGED <<bcasts, accepted, clientCount, clientsL, hpc, tag,
                   ns, wpc, ci, panicked>>

\* One goroutine of Broadcast's loop: write wb, and on error log and close.
BroadcastWrite(t) ==
    /\ ~panicked
    /\ t \in writes
    /\ ~Blocked(t.l)
    /\ writes' = writes \ {t}
    /\ IF Writable(t.l)
       THEN /\ recv' = [recv EXCEPT ![t.l] = Append(@, bcasts[t.b].wb)]
            /\ UNCHANGED <<conn, clientLog>>
       ELSE /\ clientLog' = clientLog \cup {<<tag[t.l], "Write error">>}
            /\ conn' = [conn EXCEPT ![t.l].closed = TRUE]
            /\ UNCHANGED recv
    /\ UNCHANGED evars
    /\ UNCHANGED <<bcasts, accepted, clientCount, clients, clientsL, hpc, tag,
                   ns, wpc, ci, panicked>>

(***************************************************************************)
(* The observers' side of the sockets.                                     *)
(***************************************************************************)
\* An observer closes its end (or dies).
ClientDisconnect(c) ==
    /\ ~panicked
    /\ hpc[c] # "none"
    /\ conn[c] # NilConn
    /\ conn[c].peer # "gone"
    /\ ~conn[c].closed
    /\ conn' = [conn EXCEPT ![c].peer = "gone"]
    /\ UNCHANGED evars
    /\ UNCHANGED <<bcasts, writes, accepted, clientCount, clients, clientsL,
                   hpc, tag, ns, wpc, ci, recv, clientLog, panicked>>

\* An observer shuts down the reading side of its end: it takes no more
\* data, and has not closed.
ClientStopsReading(c) ==
    /\ ~panicked
    /\ hpc[c] # "none"
    /\ conn[c].peer = "open"
    /\ ~conn[c].closed
    /\ conn' = [conn EXCEPT ![c].peer = "deaf"]
    /\ UNCHANGED evars
    /\ UNCHANGED <<bcasts, writes, accepted, clientCount, clients, clientsL,
                   hpc, tag, ns, wpc, ci, recv, clientLog, panicked>>

\* An observer stops taking data while its socket stays open; what is written
\* to it from now on does not fit the socket buffer.
ClientStalls(c) ==
    /\ ~panicked
    /\ hpc[c] # "none"
    /\ conn[c].peer = "open"
    /\ ~conn[c].closed
    /\ conn' = [conn EXCEPT ![c].peer = "stalled"]
    /\ UNCHANGED evars
    /\ UNCHANGED <<bcasts, writes, accepted, clientCount, clients, clientsL,
                   hpc, tag, ns, wpc, ci, recv, clientLog, panicked>>

\* An observer sends a byte.
ClientSend(c) ==
    /\ ~panicked
    /\ hpc[c] # "none"
    /\ conn[c] # NilConn
    /\ conn[c].peer # "gone"
    /\ ~conn[c].closed
    /\ conn[c].inbuf < MaxInbuf
    /\ conn' = [conn EXCEPT ![c].inbuf = @ + 1]
    /\ UNCHANGED evars
    /\ UNCHANGED <<bcasts, writes, accepted, clientCount, clients, clientsL,
                   hpc, tag, ns, wpc, ci, recv, clientLog, panicked>>

(***************************************************************************)
(* client.go: handleClients and handleClient                               *)
(***************************************************************************)
\* handleClients: AcceptUnix returns the next connection and handleClient is
\* started for it.  ListenForClients runs after memberlist.Create.
AcceptUnix ==
    /\ ~panicked
    /\ Created
    /\ accepted < MaxConns
    /\ accepted' = accepted + 1
    /\ hpc' = [hpc EXCEPT ![accepted + 1] = "tag"]
    /\ UNCHANGED evars
    /\ UNCHANGED <<bcasts, writes, clientCount, clients, clientsL, tag, ns,
                   wpc, ci, conn, recv, clientLog, panicked>>

\* handleClients when AcceptUnix fails with a temporary error: the "if" of
\* line 96 is skipped and handleClient is started with the nil connection;
\* nothing is logged and the loop calls AcceptUnix again at once.
AcceptUnixTemporary ==
    /\ ~panicked
    /\ Created
    /\ accepted < MaxConns
    /\ Cardinality({c \in Conns : conn[c] = NilConn}) < MaxAcceptErrors
    /\ accepted' = accepted + 1
    /\ hpc' = [hpc EXCEPT ![accepted + 1] = "tag"]
    /\ conn' = [conn EXCEPT ![accepted + 1] = NilConn]
    /\ UNCHANGED evars
    /\ UNCHANGED <<bcasts, writes, clientCount, clients, clientsL, tag, ns,
                   wpc, ci, recv, clientLog, panicked>>

\* handleClients when AcceptUnix fails with any other error:
\* LeaveMeshAndExitWithError, which is log.Fatalf.
AcceptUnixFatal ==
    /\ ~panicked
    /\ Created
    /\ clientLog' = clientLog \cup {<<-1, "Fatal error">>}
    /\ panicked' = TRUE
    /\ UNCHANGED evars
    /\ UNCHANGED <<bcasts, writes, accepted, clientCount, clients, clientsL,
                   hpc, tag, ns, wpc, ci, conn, recv>>

\* Variant: the counter is read and incremented without clientCountL, so
\* the handlers that are at this point together read the same number and
\* their increments fall into one.
handleClientTagUnlocked(c) ==
    /\ ~panicked
    /\ hpc[c] = "tag"
    /\ tag' = [d \in Conns |-> IF hpc[d] = "tag" THEN clientCount ELSE tag[d]]
    /\ clientCount' = clientCount + 1
    /\ clientLog' = clientLog \cup {<<clientCount, "Connected">>}
    /\ hpc' = [d \in Conns |-> IF hpc[d] = "tag" THEN "members" ELSE hpc[d]]
    /\ UNCHANGED evars
    /\ UNCHANGED <<bcasts, writes, accepted, clients, clientsL, ns, wpc, ci,
                   conn, recv, panicked>>

\* "Get the client's number", under clientCountL, and log "Connected".
handleClientTag(c) ==
    /\ ~panicked
    /\ hpc[c] = "tag"
    /\ tag' = [tag EXCEPT ![c] = clientCount]
    /\ clientCount' = clientCount + 1
    /\ clientLog' = clientLog \cup {<<clientCount, "Connected">>}
    /\ hpc' = [hpc EXCEPT ![c] = "members"]
    /\ UNCHANGED evars
    /\ UNCHANGED <<bcasts, writes, accepted, clients, clientsL, ns, wpc, ci,
                   conn, recv, panicked>>

\* ns := m.Members()
handleClientMembers(c) ==
    /\ ~panicked
    /\ hpc[c] = "members"
    /\ ns' = [ns EXCEPT ![c] = members]
    /\ hpc' = [hpc EXCEPT ![c] = "write"]
    /\ UNCHANGED evars
    /\ UNCHANGED <<bcasts, writes, accepted, clientCount, clients, clientsL,
                   tag, wpc, ci, conn, recv, clientLog, panicked>>

\* Variant: the error branch lacks its return and falls through to the
\* registration.
handleClientWriteNoReturn(c) ==
    /\ ~panicked
    /\ hpc[c] = "write"
    /\ conn[c] # NilConn
    /\ ~Blocked(c)
    /\ IF Writable(c)
       THEN /\ recv' = [recv EXCEPT ![c] = Append(@, SnapshotBytes(ns[c]))]
            /\ UNCHANGED <<conn, clientLog>>
       ELSE /\ clientLog' = clientLog \cup {<<tag[c], "Error sending member list">>}
            /\ conn' = [conn EXCEPT ![c].closed = TRUE]
            /\ UNCHANGED recv
    /\ hpc' = [hpc EXCEPT ![c] = "claim"]
    /\ UNCHANGED evars
    /\ UNCHANGED <<bcasts, writes, accepted, clientCount, clients, clientsL,
                   tag, ns, wpc, ci, panicked>>

\* Roll the state message and write it; on error log, close and return.
handleClientWrite(c) ==
    /\ ~panicked
    /\ hpc[c] = "write"
    /\ conn[c] # NilConn
    /\ ~Blocked(c)
    /\ IF Writable(c)
       THEN /\ recv' = [recv EXCEPT ![c] = Append(@, SnapshotBytes(ns[c]))]
            /\ hpc' = [hpc EXCEPT ![c] = "claim"]
            /\ UNCHANGED <<conn, clientLog>>
       ELSE /\ clientLog' = clientLog \cup {<<tag[c], "Error sending member list">>}
            /\ conn' = [conn EXCEPT ![c].closed = TRUE]
            /\ hpc' = [hpc EXCEPT ![c] = "failed"]
            /\ UNCHANGED recv
    /\ UNCHANGED evars
    /\ UNCHANGED <<bcasts, writes, accepted, clientCount, clients, clientsL,
                   tag, ns, wpc, ci, panicked>>

\* c.Write on the nil connection of a failed accept.  Either the call is a
\* nil dereference and the process dies, or (net's conn.ok() check) it
\* returns EINVAL: then the error is logged, c.Close() returns EINVAL too,
\* and handleClient returns.
handleClientWriteNil(c) ==
    /\ ~panicked
    /\ hpc[c] = "write"
    /\ conn[c] = NilConn
    /\ \/ /\ panicked' = TRUE
          /\ UNCHANGED <<hpc, clientLog>>
       \/ /\ clientLog' = clientLog \cup {<<tag[c], "Error sending member list">>}
          /\ hpc' = [hpc EXCEPT ![c] = "failed"]
          /\ UNCHANGED panicked
    /\ UNCHANGED evars
    /\ UNCHANGED <<bcasts, writes, accepted, clientCount, clients, clientsL,
                   tag, ns, wpc, ci, conn, recv>>

\* Variant: with no nil entry the scan falls back to the first slot.
EmptySpotOrFirst(tbl) ==
    IF \E i \in Slots : tbl[i] = NoConn
    THEN CHOOSE i \in Slots : tbl[i] = NoConn /\ \A j \in 1..(i - 1) : tbl[j] # NoConn
    ELSE 1

\* Variant: the scan sees that some entry is nil but stores at the first slot.
EmptySpotNoIndex(tbl) ==
    IF \E i \in Slots : tbl[i] = NoConn THEN 1 ELSE 0

\* "Find an empty spot": the first nil entry of the table, 0 when there is none.
EmptySpot(tbl) ==
    IF \E i \in Slots : tbl[i] = NoConn
    THEN CHOOSE i \in Slots : tbl[i] = NoConn /\ \A j \in 1..(i - 1) : tbl[j] # NoConn
    ELSE 0

\* clientsL.Lock() and the loop over clients.  With a spot found the session
\* is stored, its watcher started and the deferred Unlock runs; with none,
\* handleClient goes on to the "No empty space" lines still holding clientsL.
handleClientClaim(c) ==
    /\ ~panicked
    /\ hpc[c] = "claim"
    /\ clientsL = NoConn
    /\ IF EmptySpot(clients) # 0
       THEN /\ clients' = [clients EXCEPT ![EmptySpot(clients)] = c]
            /\ ci' = [ci EXCEPT ![c] = EmptySpot(clients)]
            /\ wpc' = [wpc EXCEPT ![c] = "read"]
            /\ hpc' = [hpc EXCEPT ![c] = "registered"]
            /\ UNCHANGED clientsL
       ELSE /\ clientsL' = c
            /\ hpc' = [hpc EXCEPT ![c] = "reject"]
            /\ UNCHANGED <<clients, ci, wpc>>
    /\ UNCHANGED evars
    /\ UNCHANGED <<bcasts, writes, accepted, clientCount, tag, ns, conn, recv,
                   clientLog, panicked>>

\* "No empty space": Fprintf the message (its error is ignored), Close, and
\* the deferred Unlock.
handleClientReject(c) ==
    /\ ~panicked
    /\ hpc[c] = "reject"
    /\ ~Blocked(c)
    /\ recv' = [recv EXCEPT ![c] = IF Writable(c) THEN Append(@, TooManyBytes) ELSE @]
    /\ conn' = [conn EXCEPT ![c].closed = TRUE]
    /\ clientsL' = NoConn
    /\ hpc' = [hpc EXCEPT ![c] = "rejected"]
    /\ UNCHANGED evars
    /\ UNCHANGED <<bcasts, writes, accepted, clientCount, clients, tag, ns,
                   wpc, ci, clientLog, panicked>>

(***************************************************************************)
(* client.go: waitForDisconnect                                            *)
(***************************************************************************)
\* What c.Read(b) returns now, for the one-byte buffer b: "none" when the
\* call stays blocked.
ReadResult(c) ==
    IF conn[c].closed THEN [n |-> 0, err |-> "closed"]
    ELSE IF conn[c].inbuf > 0 THEN [n |-> 1, err |-> "nil"]
    ELSE IF conn[c].peer = "gone" THEN [n |-> 0, err |-> "EOF"]
    ELSE [n |-> 0, err |-> "none"]

\* Variant: end-of-stream is taken for "no real error".
RetryableOrEOF(err) == err \in {"nil", "temporary", "timeout", "EOF"}

\* Variant: a timeout is taken for a real error.
RetryableNoTimeout(err) == err \in {"nil", "temporary"}

\* The errors after which the loop waits and reads again: nil, a temporary
\* error, a timeout.
Retryable(err) == err \in {"nil", "temporary", "timeout"}

\* One pass of the read loop where Read returns.
waitForDisconnectRead(c) ==
    /\ ~panicked
    /\ wpc[c] = "read"
    /\ ReadResult(c).err # "none"
    /\ IF ReadResult(c).n # 0
       THEN /\ conn' = [conn EXCEPT ![c].inbuf = @ - 1]
            /\ UNCHANGED wpc
       ELSE /\ wpc' = [wpc EXCEPT ![c] =
                         IF Retryable(ReadResult(c).err) THEN "sleep" ELSE "close"]
            /\ UNCHANGED conn
    /\ UNCHANGED evars
    /\ UNCHANGED <<bcasts, writes, accepted, clientCount, clients, clientsL,
                   hpc, tag, ns, ci, recv, clientLog, panicked>>

\* One pass where Read on an idle, open connection returns no byte and nil,
\* a temporary error or a timeout.
waitForDisconnectIdle(c) ==
    /\ ~panicked
    /\ wpc[c] = "read"
    /\ ReadResult(c).err = "none"
    /\ \E err \in {"nil", "temporary", "timeout"} :
          wpc' = [wpc EXCEPT ![c] = IF Retryable(err) THEN "sleep" ELSE "close"]
    /\ UNCHANGED evars
    /\ UNCHANGED <<bcasts, writes, accepted, clientCount, clients, clientsL,
                   hpc, tag, ns, ci, conn, recv, clientLog, panicked>>

\* time.Sleep(readWait) is over.
waitForDisconnectWake(c) ==
    /\ ~panicked
    /\ wpc[c] = "sleep"
    /\ wpc' = [wpc EXCEPT ![c] = "read"]
    /\ UNCHANGED evars
    /\ UNCHANGED <<bcasts, writes, accepted, clientCount, clients, clientsL,
                   hpc, tag, ns, ci, conn, recv, clientLog, panicked>>

\* Variant: the watcher goes on to clear its slot without closing the
\* connection.
waitForDisconnectNoClose(c) ==
    /\ ~panicked
    /\ wpc[c] = "close"
    /\ IF clients[ci[c]] = NoConn
       THEN /\ panicked' = TRUE
            /\ UNCHANGED wpc
       ELSE /\ wpc' = [wpc EXCEPT ![c] = "free"]
            /\ UNCHANGED panicked
    /\ UNCHANGED evars
    /\ UNCHANGED <<bcasts, writes, accepted, clientCount, clients, clientsL,
                   hpc, tag, ns, ci, conn, recv, clientLog>>

\* clients[ci].c.Close(), without clientsL: a nil entry is a nil dereference.
waitForDisconnectClose(c) ==
    /\ ~panicked
    /\ wpc[c] = "close"
    /\ IF clients[ci[c]] = NoConn
       THEN /\ panicked' = TRUE
            /\ UNCHANGED <<conn, wpc>>
       ELSE /\ conn' = [conn EXCEPT ![clients[ci[c]]].closed = TRUE]
            /\ wpc' = [wpc EXCEPT ![c] = "free"]
            /\ UNCHANGED panicked
    /\ UNCHANGED evars
    /\ UNCHANGED <<bcasts, writes, accepted, clientCount, clients, clientsL,
                   hpc, tag, ns, ci, recv, clientLog>>

\* clientsL.Lock(); clients[ci] = nil; clientsL.Unlock(); then the log line.
waitForDisconnectFree(c) ==
    /\ ~panicked
    /\ wpc[c] = "free"
    /\ clientsL = NoConn
    /\ clients' = [clients EXCEPT ![ci[c]] = NoConn]
    /\ clientLog' = clientLog \cup {<<tag[c], "Disconnected">>}
    /\ wpc' = [wpc EXCEPT ![c] = "done"]
    /\ UNCHANGED evars
    /\ UNCHANGED <<bcasts, writes, accepted, clientCount, clientsL, hpc, tag,
                   ns, ci, conn, recv, panicked>>

(***************************************************************************)
(* The program, and the parts of it the properties are checked on.         *)
(***************************************************************************)
\* main up to ListenForClients: the node is created and its own join handled.
Startup ==
    \/ MeshCreate
    \/ HandleEvents
    \/ \E e \in DOMAIN events : handleEvent(e)

\* The event dispatcher at work.
Dispatch ==
    \/ MeshEvent
    \/ \E e \in DOMAIN events : broadcastAndLogf(e)
    \/ \E e \in DOMAIN events : Broadcastf(e)

\* handleClient up to the registration, while the table has room.
Admission ==
    \/ \E c \in Conns : handleClientTag(c)
    \/ \E c \in Conns : handleClientMembers(c)
    \/ \E c \in Conns : handleClientWrite(c)
    \/ \E c \in Conns : handleClientClaim(c)

\* The goroutines serving accepted connections while the table has room,
\* and the observers leaving.
Serving ==
    \/ \E c \in Conns : handleClientTag(c)
    \/ \E c \in Conns : handleClientMembers(c)
    \/ \E c \in Conns : handleClientWrite(c)
    \/ \E c \in Conns : handleClientClaim(c)
    \/ \E c \in Conns : waitForDisconnectRead(c)
    \/ \E c \in Conns : waitForDisconnectClose(c)
    \/ \E c \in Conns : waitForDisconnectFree(c)
    \/ \E c \in Conns : ClientDisconnect(c)

\* The same, with connections turned away when the table is full.
Handlers ==
    \/ Serving
    \/ \E c \in Conns : handleClientReject(c)

\* Reads that return nothing, and observers that send bytes.
IdleReads ==
    \/ \E c \in Conns : waitForDisconnectIdle(c)
    \/ \E c \in Conns : waitForDisconnectWake(c)

Chatter ==
    \/ IdleReads
    \/ \E c \in Conns : ClientSend(c)
    \/ \E c \in Conns : ClientStopsReading(c)

\* handleClients when AcceptUnix returns an error.
AcceptErrors ==
    \/ AcceptUnixTemporary
    \/ AcceptUnixFatal
    \/ \E c \in Conns : handleClientWriteNil(c)

Next ==
    \/ Startup
    \/ Dispatch
    \/ NotifyConflict
    \/ \E t \in writes : BroadcastWrite(t)
    \/ AcceptUnix
    \/ AcceptErrors
    \/ Handlers
    \/ Chatter
    \/ \E c \in Conns : ClientStalls(c)

Spec == Init /\ [][Next]_vars

\* The event dispatcher alone: no observer connects.
NextEvents ==
    \/ Startup
    \/ Dispatch
    \/ NotifyConflict

SpecEvents == Init /\ [][NextEvents]_vars

\* handleClients in the runs where observers come and go.
AcceptTriple ==
    /\ accepted < TripleConns
    /\ AcceptUnix

\* The registry under connects, disconnects and name-conflict broadcasts.
NextRegistry ==
    \/ Startup
    \/ NotifyConflict
    \/ \E t \in writes : BroadcastWrite(t)
    \/ AcceptTriple
    \/ Handlers

SpecRegistry == Init /\ [][NextRegistry]_vars

\* handleClients in the runs where few observers connect.
AcceptFew ==
    /\ accepted < FewConns
    /\ AcceptUnix

\* The dispatcher and observers together: rosters that change while
\* observers connect, and event broadcasts to them.
NextSnapshot ==
    \/ Startup
    \/ Dispatch
    \/ \E t \in writes : BroadcastWrite(t)
    \/ AcceptFew
    \/ Serving

SpecSnapshot == Init /\ [][NextSnapshot]_vars

\* What the Go scheduler guarantees: a goroutine that can take its next
\* step takes it.  The observers and the membership service owe nothing.
Progress ==
    /\ WF_vars(Startup)
    /\ WF_vars(\E t \in writes : BroadcastWrite(t))
    /\ \A c \in Conns :
          /\ WF_vars(handleClientTag(c))
          /\ WF_vars(handleClientMembers(c))
          /\ WF_vars(handleClientWrite(c))
          /\ WF_vars(handleClientClaim(c))
          /\ WF_vars(handleClientReject(c))
          /\ WF_vars(waitForDisconnectRead(c))
          /\ WF_vars(waitForDisconnectWake(c))
          /\ WF_vars(waitForDisconnectClose(c))
          /\ WF_vars(waitForDisconnectFree(c))

\* Observers coming and going, with no broadcast.
NextReuse ==
    \/ Startup
    \/ AcceptTriple
    \/ Handlers
    \/ IdleReads

SpecReuseFair == Init /\ [][NextReuse]_vars /\ Progress

\* handleClients in the runs that check progress.
AcceptPair ==
    /\ accepted < PairConns
    /\ AcceptUnix

\* Broadcasts to observers that stop reading, leave or send bytes.
NextEvict ==
    \/ Startup
    \/ NotifyConflict
    \/ \E t \in writes : BroadcastWrite(t)
    \/ AcceptPair
    \/ Serving
    \/ Chatter

SpecEvictFair == Init /\ [][NextEvict]_vars /\ Progress

\* The accept loop with failing AcceptUnix calls among the good ones.
NextAccept ==
    \/ Startup
    \/ AcceptPair
    \/ AcceptErrors
    \/ Serving

SpecAccept == Init /\ [][NextAccept]_vars

\* The goroutines of the dispatcher take their steps too.
DispatchProgress ==
    /\ WF_vars(\E e \in DOMAIN events : broadcastAndLogf(e))
    /\ WF_vars(\E e \in DOMAIN events : Broadcastf(e))

\* Events broadcast to an observer that stays connected and may stop taking
\* data.
NextStall ==
    \/ Startup
    \/ Dispatch
    \/ \E t \in writes : BroadcastWrite(t)
    \/ AcceptFew
    \/ Admission
    \/ \E c \in Conns : ClientStalls(c)

SpecStallFair == Init /\ [][NextStall]_vars /\ Progress /\ DispatchProgress

\* Many handleClient goroutines at once, refused ones among them.
NextTags ==
    \/ Startup
    \/ AcceptUnix
    \/ AcceptErrors
    \/ Admission
    \/ \E c \in Conns : handleClientReject(c)

SpecTags == Init /\ [][NextTags]_vars

(***************************************************************************)
(* Properties.                                                             *)
(***************************************************************************)
\* The sessions: connections whose watcher has started and not yet freed
\* its slot.
Sessions == {c \in Conns : wpc[c] \notin {"none", "done"}}

TableFull == \A i \in Slots : clients[i] # NoConn

\* C1: the sessions never outnumber the slots and are exactly the entries
\* of the table (no claim pushes a session out); a handleClient that found
\* no nil entry holds no slot and has no watcher while the table stays full,
\* and once it has returned its connection has been sent the "Too many
\* connected clients" line and is closed, still with no slot and no watcher.
C1_Capacity ==
    /\ Cardinality(Sessions) <= maxClients
    /\ Sessions = Registered
    /\ \A c \in Conns :
          /\ wpc[c] # "none" => hpc[c] = "registered"
          /\ hpc[c] = "reject" =>
                TableFull /\ c \notin Registered /\ wpc[c] = "none"
          /\ hpc[c] = "rejected" =>
                /\ c \notin Registered /\ wpc[c] = "none"
                /\ conn[c].closed
                /\ conn[c].peer = "open" =>
                      recv[c][Len(recv[c])] = "Too many connected clients, sorry\n"

\* C1 witness: with every slot held, a connection has been turned away with
\* the message and closed.
C1_Witness ==
    \E c \in Conns :
        /\ hpc[c] = "rejected"
        /\ Len(recv[c]) = 2 /\ recv[c][2] = "Too many connected clients, sorry\n"
        /\ conn[c].closed
        /\ Cardinality(Sessions) = maxClients

\* C2: two sessions never have the same slot index, and each session is
\* the entry at its own index: no claim stores over a session.
C2_SlotExclusive ==
    \A c \in Sessions :
        /\ clients[ci[c]] = c
        /\ \A d \in Sessions : d # c => ci[d] # ci[c]

\* C2 witness: two sessions at once, the later one in the lower slot (it
\* took a slot that an earlier session had freed).
C2_Witness ==
    \E c, d \in Sessions : c < d /\ ci[d] < ci[c] /\ wpc[d] = "read" /\ wpc[c] = "read"

\* The log holds a "Write error" line for session c.
WriteError(c) == <<tag[c], "Write error">> \in clientLog

\* C3: for every Broadcast call and every session its loop found, the write
\* is still to come, or the payload has arrived, or that session's own
\* connection is broken; and a session's connection is closed only after
\* its own write error, by its own watcher, or by its own handleClient, and
\* its slot cleared only by its own watcher (the sessions are the table).
C3_BroadcastIsolation ==
    /\ \A k \in DOMAIN bcasts : \A c \in bcasts[k].to :
          \/ [l |-> c, b |-> k] \in writes
          \/ \E j \in DOMAIN recv[c] : recv[c][j] = bcasts[k].wb
          \/ ~Writable(c)
    /\ \A c \in Conns :
          conn[c].closed =>
              \/ WriteError(c)
              \/ wpc[c] \in {"free", "done"}
              \/ hpc[c] \in {"failed", "rejected"}
    /\ Sessions = Registered

\* C3 witness: one Broadcast call found two sessions; the write to one
\* failed, the other has the payload and is still open and registered.
C3_Witness ==
    \E k \in DOMAIN bcasts : \E c, d \in bcasts[k].to :
        /\ c # d
        /\ WriteError(c) /\ conn[c].closed
        /\ \E j \in DOMAIN recv[d] : recv[d][j] = bcasts[k].wb
        /\ Writable(d) /\ d \in Registered /\ wpc[d] = "read"

\* C9 as amended: a rejected connection has received the state message
\* first, then (unless the observer had already gone) the one line "Too
\* many connected clients, sorry", and nothing else, and is closed.
C9_RejectedGetsSnapshotThenLine ==
    \A c \in Conns :
        hpc[c] = "rejected" =>
            /\ conn[c].closed
            /\ Len(recv[c]) \in {1, 2}
            /\ recv[c][1] = SnapshotBytes(ns[c])
            /\ Len(recv[c]) = 2 => recv[c][2] = "Too many connected clients, sorry\n"
            /\ Len(recv[c]) = 1 => conn[c].peer = "gone"

\* C9 witness: a rejected observer that has received both the state message
\* and the "Too many" line.
C9_Witness ==
    \E c \in Conns :
        /\ hpc[c] = "rejected"
        /\ recv[c] = <<"Current nodes in mesh: 1\nn0 (10.0.0.9:7887)\n",
                       "Too many connected clients, sorry\n">>

\* C9 as claimed: the "Too many" line is the only data a rejected
\* connection has received.
C9_OnlyTooManyLine ==
    \A c \in Conns :
        hpc[c] = "rejected" =>
            conn[c].closed /\ recv[c] = <<"Too many connected clients, sorry\n">>

\* The entries of the log (or of the Broadcast calls) that stem from event e.
Of(seq, e) == {i \in DOMAIN seq : seq[i].ev = e}

OwnJoin(e) == events[e].Event = NodeJoin /\ events[e].Node.Name = "n0"

\* C5 as claimed: the log lines, and the Broadcast calls, of the events come
\* in the order HandleEvents received the events.
C5_DispatchInOrder ==
    /\ \A i, j \in DOMAIN logged : i < j => logged[i].ev < logged[j].ev
    /\ \A i, j \in DOMAIN bcasts :
          (i < j /\ bcasts[i].ev # 0 /\ bcasts[j].ev # 0) => bcasts[i].ev < bcasts[j].ev

\* "<name> (<address>:<port>)" written out for the nodes of the model.
NodeText(n) ==
    IF n = Node1 THEN "n1 (10.0.0.1:7887)"
    ELSE IF n = Node2 THEN "n2 ([2001:db8::2]:7888)"
    ELSE "n0 (10.0.0.9:7887)"

JoinText(n) == "[Join] " \o NodeText(n)

\* C6: our own join never gets a log line, a Broadcastf goroutine or a
\* Broadcast call; the join of another node gets its Broadcastf goroutine as
\* soon as handleEvent has run, its "[Join]" log line once handleEvent is
\* done and its Broadcast call once Broadcastf is done.
C6_SelfJoinSuppressed ==
    \A e \in DOMAIN events :
        events[e].Event = NodeJoin =>
            IF OwnJoin(e)
            THEN Of(logged, e) = {} /\ Of(bcasts, e) = {} /\ bpc[e] = "none"
            ELSE /\ epc[e] # "handle" => bpc[e] # "none"
                 /\ epc[e] = "done" =>
                       \E i \in Of(logged, e) : logged[i].line = JoinText(events[e].Node)
                 /\ bpc[e] = "done" =>
                       \E i \in Of(bcasts, e) :
                           bcasts[i].wb = JoinText(events[e].Node) \o "\n"

\* C6 witness: our own join and the join of another node have both been
\* handled to the end.
C6_Witness ==
    \E e, f \in DOMAIN events :
        /\ OwnJoin(e) /\ epc[e] = "done"
        /\ events[f].Event = NodeJoin /\ ~OwnJoin(f)
        /\ epc[f] = "done" /\ bpc[f] = "done"

\* What C7 says of the events received from nech: none but our own join is
\* dropped, none is logged or broadcast twice, and the Broadcast call
\* carries the logged line plus a newline.
EventsOnce ==
    \A e \in DOMAIN events :
        ~OwnJoin(e) =>
            /\ Cardinality(Of(logged, e)) <= 1
            /\ Cardinality(Of(bcasts, e)) <= 1
            /\ epc[e] # "handle" => bpc[e] # "none"
            /\ epc[e] = "done" => Cardinality(Of(logged, e)) = 1
            /\ bpc[e] = "done" => Cardinality(Of(bcasts, e)) = 1
            /\ \A i \in Of(logged, e), k \in Of(bcasts, e) :
                  bcasts[k].wb = logged[i].line \o "\n"

RECURSIVE ExpectedLines(_)
ExpectedLines(roster) ==
    IF roster = <<>> THEN ""
    ELSE NodeText(Head(roster)) \o "\n" \o ExpectedLines(Tail(roster))

ExpectedSnapshot(roster) ==
    "Current nodes in mesh: " \o ToString(Len(roster)) \o "\n" \o ExpectedLines(roster)

\* C8: the first thing written to a connection is the header with the size
\* of the roster handleClient queried for it, then one line per member in
\* the roster's order; and a connection has it before handleClient tries to
\* register it, so before it has a slot or a watcher.
C8_SnapshotFirst ==
    \A c \in Conns :
        /\ recv[c] # <<>> => recv[c][1] = ExpectedSnapshot(ns[c])
        /\ (hpc[c] \in {"claim", "reject", "registered", "rejected"}
              \/ c \in Registered \/ wpc[c] # "none") => recv[c] # <<>>

\* C8 witness: a registered observer whose snapshot listed three nodes in
\* the order they joined, and who was then sent a broadcast.
C8_Witness ==
    \E c \in Registered :
        /\ ns[c] = <<Node0, Node2, Node1>>
        /\ Len(recv[c]) >= 2
        /\ recv[c][1] = "Current nodes in mesh: 3\nn0 (10.0.0.9:7887)\nn2 ([2001:db8::2]:7888)\nn1 (10.0.0.1:7887)\n"

\* Session c has lost its slot and its watcher has ended.
Evicted(c) == wpc[c] = "done" /\ c \notin Registered

AfterRoster(c, e) ==
    /\ events[e].Event \in {NodeJoin, NodeLeave}
    /\ (events[e].Event = NodeJoin) = (events[e].Node \notin Range(ns[c]))
    /\ \A f \in DOMAIN events :
          (f > e /\ events[f].Node = events[e].Node)
              => events[f].Event \notin {NodeJoin, NodeLeave}

\* C11 as claimed: an observer that is registered and still connected is
\* among the sessions written to by the Broadcast call of every join and
\* leave that came after its roster was queried.
C11_NoGapAfterRoster ==
    \A c \in Conns :
        (hpc[c] = "registered" /\ wpc[c] = "read" /\ Writable(c)) =>
            \A e \in DOMAIN events :
                (AfterRoster(c, e) /\ bpc[e] = "done") =>
                    \E k \in Of(bcasts, e) : c \in bcasts[k].to

\* The handleClient goroutines started after a failed AcceptUnix.
FailedAccepts == {c \in Conns : hpc[c] # "none" /\ conn[c] = NilConn}

\* C12 as claimed: a temporary accept error leaves a line in the log and
\* starts no client handling: no handleClient runs on the nil connection, no
\* tag is taken for it and the counter counts connections only; and after
\* any other accept error the process has ended.
C12_TransientAcceptRetried ==
    /\ FailedAccepts = {}
    /\ \A c \in Conns : conn[c] = NilConn => tag[c] = -1
    /\ clientCount <= Cardinality({c \in Conns : hpc[c] # "none" /\ conn[c] # NilConn})
    /\ <<-1, "Fatal error">> \in clientLog => panicked

\* handleClient for c is about to write to its connection or close it.
AtConnIO(c) == hpc[c] \in {"write", "reject"}

\* C13 as claimed: whoever holds clientsL is not at a write to, or a close
\* of, a connection; the steps that take and release clientsL in one go
\* (the claim of a free slot, the watcher's free, Broadcast's loop) touch
\* the table only.
C13_NoIOUnderLock ==
    \A c \in Conns : clientsL = c => ~AtConnIO(c)

\* C14: every event the membership service sends is received by
\* HandleEvents, and every received event is handled (its line logged, or
\* dropped as our own join), whatever becomes of the broadcast writes: a
\* write that never returns keeps no event waiting.
C14_DispatchNeverWaits ==
    /\ (nech # <<>>) ~> (nech = <<>>)
    /\ \A e \in 1..MaxEvents :
          (e \in DOMAIN events /\ epc[e] # "done")
              ~> (e \in DOMAIN events /\ epc[e] = "done")

\* C14 witness: the write of one event's broadcast is stuck on a stalled
\* observer, and a later event has been received and handled to the end.
C14_Witness ==
    \E t \in writes : \E e \in DOMAIN events :
        /\ Blocked(t.l)
        /\ bcasts[t.b].ev # 0 /\ bcasts[t.b].ev < e
        /\ epc[e] = "done" /\ bpc[e] = "done"

\* The connections that have held slot i, now or earlier.
Occupants(i) == {c \in Conns : ci[c] = i}

\* C15: of the connections that have held slot i, all but the one that
\* holds it now are closed.  A connection is installed open and none is
\* reopened, so each earlier occupant was closed when the slot was taken
\* again; and a connection whose watcher has cleared the slot is closed.
C15_ReuseAfterClose ==
    \A i \in Slots : \A c \in Occupants(i) :
        /\ c # clients[i] => conn[c].closed
        /\ wpc[c] = "done" => (c # clients[i] /\ conn[c].closed)

\* C15 witness: slot i was held by c, whose watcher closed the connection
\* and cleared the slot, and is now held by the open connection d.
C15_Witness ==
    \E i \in Slots : \E c, d \in Occupants(i) :
        /\ c # d
        /\ wpc[c] = "done" /\ conn[c].closed
        /\ clients[i] = d /\ wpc[d] = "read" /\ ~conn[d].closed

\* The goroutines of Broadcast that have yet to write to connection c.
WritesTo(c) == {t \in writes : t.l = c}

\* C16 as amended: once the watcher of a session has cleared the slot and
\* ended, the session stays out of the table, no Broadcast call starts a
\* write to it, nothing more arrives on its connection and the connection
\* stays closed; the writes started before may still be attempted.
C16_NoNewWritesAfterFree ==
    [][\A c \in Conns :
          wpc[c] = "done" =>
              /\ wpc'[c] = "done"
              /\ c \notin Registered'
              /\ WritesTo(c)' \subseteq WritesTo(c)
              /\ recv'[c] = recv[c]
              /\ conn[c].closed /\ conn'[c] = conn[c]
      ]_vars

\* C16 witness: the watcher of c has ended and a write to c, started by a
\* Broadcast call that found c in the table, is still to come.
C16_Witness ==
    \E c \in Conns :
        /\ wpc[c] = "done" /\ c \notin Registered
        /\ WritesTo(c) # {}

\* C16 as claimed: once the watcher of a session has cleared the slot and
\* ended, no goroutine writes to or closes its connection: no write to it
\* is attempted and no write error is logged for it.
C16_NoOperationAfterFree ==
    [][\A c \in Conns :
          wpc[c] = "done" =>
              /\ WritesTo(c)' = WritesTo(c)
              /\ WriteError(c)' = WriteError(c)
              /\ recv'[c] = recv[c]
      ]_vars

\* C17: a watcher leaves its read loop only when Read returns no byte and
\* a terminal error (end of stream, or the connection closed under it); a
\* read that returns a byte is followed by the next read, one that returns
\* nothing by the wait and then the next read; and as long as the watcher
\* is in the loop its session keeps its slot and the watcher closes
\* nothing.
C17_RetryableReadsKeepSession ==
    [][\A c \in Conns :
          /\ (wpc[c] = "read" /\ wpc'[c] # "read") =>
                /\ ReadResult(c).n = 0
                /\ wpc'[c] \in {"sleep", "close"}
                /\ wpc'[c] = "close" <=> ReadResult(c).err \in {"EOF", "closed"}
          /\ (wpc[c] = "read" /\ ReadResult(c).n # 0) => wpc'[c] = "read"
          /\ wpc[c] = "sleep" => wpc'[c] \in {"sleep", "read"}
          /\ (wpc[c] \in {"read", "sleep"}) =>
                /\ clients'[ci[c]] = c
                /\ (conn'[c].closed /\ ~conn[c].closed) => WriteError(c)'
      ]_vars

\* C17 witness: a watcher is in its wait after a read that returned
\* nothing, its observer still connected, the session still in its slot.
C17_Witness ==
    \E c \in Conns :
        /\ wpc[c] = "sleep" /\ clients[ci[c]] = c
        /\ ~conn[c].closed /\ conn[c].peer = "open"
        /\ \E d \in Conns : d # c /\ wpc[d] = "done"

\* C18: a step that makes the k-th Broadcast call starts one write of the
\* call's copy for each session there is at that moment (each in one slot
\* only, so the loop over the slots starts no second write for it) and for
\* no other connection, and drops no write that was pending; and no other
\* step starts a write: whoever registers later gets none for this call.
C18_OneWritePerSession ==
    [][IF Len(bcasts') # Len(bcasts)
       THEN /\ Len(bcasts') = Len(bcasts) + 1
            /\ bcasts'[Len(bcasts')].to = Sessions
            /\ writes' \ writes = {[l |-> c, b |-> Len(bcasts')] : c \in Sessions}
            /\ writes \subseteq writes'
            /\ Cardinality({i \in Slots : clients[i] # NoConn}) = Cardinality(Sessions)
            /\ \A k \in DOMAIN bcasts : bcasts'[k] = bcasts[k]
       ELSE writes' \subseteq writes
      ]_vars

\* C18 witness: a Broadcast call found two sessions and wrote to both, and
\* a connection registered since has its snapshot only and no write to come.
C18_Witness ==
    \E k \in DOMAIN bcasts : \E d \in Registered :
        /\ Cardinality(bcasts[k].to) = 2
        /\ d \notin bcasts[k].to
        /\ \A c \in bcasts[k].to : \E j \in DOMAIN recv[c] : recv[c][j] = bcasts[k].wb
        /\ Len(recv[d]) = 1 /\ WritesTo(d) = {}

\* The log holds an "Error sending member list" line for connection c.
SnapshotFailed(c) == tag[c] # -1 /\ <<tag[c], "Error sending member list">> \in clientLog

\* C19: a connection whose snapshot write failed is closed and handleClient
\* has returned for it; it got no data, is in no slot, was never given a
\* slot index and has no watcher.
C19_FailedSnapshotNotRegistered ==
    \A c \in Conns :
        SnapshotFailed(c) =>
            /\ hpc[c] = "failed" /\ conn[c].closed
            /\ recv[c] = <<>>
            /\ \A i \in Slots : clients[i] # c
            /\ ci[c] = 0 /\ wpc[c] = "none"

\* C19 witness: an observer left before its snapshot was written; its
\* connection was closed unregistered while another session holds a slot.
C19_Witness ==
    \E c \in Conns : \E d \in Registered :
        /\ SnapshotFailed(c) /\ hpc[c] = "failed"
        /\ conn[c].closed /\ conn[c].peer = "gone"
        /\ d # c /\ wpc[d] = "read"

\* The handleClient goroutines that have taken their tag.
Tagged == {c \in Conns : tag[c] # -1}

\* C20: no two handleClient goroutines have the same tag; the tags taken
\* are the numbers below the counter, so the next one is new; and a
\* handleClient that is due to take its tag can do so whoever holds
\* clientsL.
C20_TagsUnique ==
    /\ \A c, d \in Tagged : c # d => tag[c] # tag[d]
    /\ {tag[c] : c \in Tagged} = 0..(clientCount - 1)
    /\ \A c \in Conns :
          (hpc[c] = "tag" /\ ~panicked) => ENABLED handleClientTag(c)

\* C20 witness: three handlers have their tags, one of them holds clientsL
\* on its way out of a full table, and a fourth is due to take its tag.
C20_Witness ==
    \E c, d \in Conns :
        /\ clientsL = c /\ hpc[c] = "reject"
        /\ hpc[d] = "tag"
        /\ Cardinality(Tagged) = 3

\* C21: from its installation until its own watcher clears it, the slot of
\* a session holds that session; so the entry a watcher dereferences
\* without clientsL is never nil (the process does not die there), the
\* connection the watcher closes is its own, and a non-nil slot changes
\* only by the step in which the watcher of its session clears it.
C21_WatcherOwnsSlot ==
    /\ [](~panicked /\ \A c \in Conns :
              wpc[c] \in {"read", "sleep", "close", "free"} => clients[ci[c]] = c)
    /\ [][/\ \A c \in Conns :
                (wpc[c] = "close" /\ wpc'[c] # "close") =>
                    /\ wpc'[c] = "free" /\ conn'[c].closed
                    /\ \A d \in Conns \ {c} : conn'[d] = conn[d]
          /\ \A i \in Slots :
                (clients[i] # NoConn /\ clients'[i] # clients[i]) =>
                    /\ clients'[i] = NoConn
                    /\ wpc[clients[i]] = "free" /\ wpc'[clients[i]] = "done"
                    /\ ci[clients[i]] = i
         ]_vars

\* C21 witness: the connection of c was closed after a failed broadcast
\* write, its watcher has closed it again and is about to clear the slot,
\* which still holds c, while another session holds the other slot.
C21_Witness ==
    \E c, d \in Conns :
        /\ c # d
        /\ wpc[c] = "free" /\ WriteError(c) /\ clients[ci[c]] = c
        /\ wpc[d] \in {"read", "close"} /\ clients[ci[d]] = d

=============================================================================
